---- MODULE Spec2Model ----
(***************************************************************************)
(* The two maintenance scripts of the repository:                          *)
(*   scripts/sync_requirements.py  requirements*.txt -> pyproject.toml     *)
(*   scripts/sync_version.py       pyproject.toml    -> __init__.py        *)
(*                                                                         *)
(* A file's text is a sequence of tokens.  A token is one character, or    *)
(* one of the literal words the regular expressions of the scripts look    *)
(* for, taken as a unit:                                                   *)
(*   "D" dependencies    "T" test    "V" version    "U" __version__        *)
(*   "m" the words `modify in pyproject.toml` of the canonical comment     *)
(* "x", "y" and "n" are letters, "1" is a digit.                           *)
(***************************************************************************)
EXTENDS Integers, Sequences, FiniteSets, TLC

NL == "\n"
SP == " "
TAB == "\t"
VT == "<VT>"
BS == "\\"
QT == "\""

\* What \s of a pattern and str.strip() take for white space.
Whitespace == {SP, NL, TAB, VT}

\* Where str.splitlines() breaks a text.
LineBreaks == {NL, VT}

Min(S) == CHOOSE m \in S : \A k \in S : m <= k

Max(S) == CHOOSE m \in S : \A k \in S : m >= k

\* The first position at or after i that holds no white space (Len(s)+1 if none):
\* where a greedy \s* begun at i stops.
SkipWs(s, i) ==
  Min({j \in i..(Len(s) + 1) : j = Len(s) + 1 \/ s[j] \notin Whitespace})

RECURSIVE Flatten(_)
Flatten(ss) == IF ss = <<>> THEN <<>> ELSE Head(ss) \o Flatten(Tail(ss))

RECURSIVE Join(_, _)
Join(sep, ss) ==
  IF ss = <<>> THEN <<>>
  ELSE IF Len(ss) = 1 THEN ss[1]
  ELSE ss[1] \o sep \o Join(sep, Tail(ss))

(***************************************************************************)
(* str.splitlines() and str.strip()                                        *)
(***************************************************************************)
RECURSIVE splitlines(_)
splitlines(s) ==
  IF s = <<>> THEN <<>>
  ELSE LET N == {i \in 1..Len(s) : s[i] \in LineBreaks}
       IN IF N = {} THEN <<s>>
          ELSE <<SubSeq(s, 1, Min(N) - 1)>>
                 \o splitlines(SubSeq(s, Min(N) + 1, Len(s)))

strip(s) ==
  LET K == {i \in 1..Len(s) : s[i] \notin Whitespace}
  IN IF K = {} THEN <<>> ELSE SubSeq(s, Min(K), Max(K))

(***************************************************************************)
(* The replacement template of re.sub.  A backslash in it starts an        *)
(* escape: \n, \t, \v and \\ stand for one character, \1 for the text of   *)
(* group 1, a backslash before another ASCII letter is an error (re.error  *)
(* "bad escape"), and before anything else it stays as written.            *)
(***************************************************************************)
\* The tokens that start with an ASCII letter and make no known escape.
BadEscapeLetters == {"x", "y", "m", "D", "est", "ersion", "I"}

RECURSIVE TemplateError(_, _, _)
TemplateError(t, k, ngroups) ==
  IF k > Len(t) THEN FALSE
  ELSE IF t[k] # BS THEN TemplateError(t, k + 1, ngroups)
  ELSE IF k = Len(t) THEN TRUE
  ELSE LET c == t[k + 1] IN
    IF c \in BadEscapeLetters THEN TRUE
    ELSE IF c = "1" THEN
      IF k + 2 <= Len(t) /\ t[k + 2] = "1" THEN
        IF k + 3 <= Len(t) /\ t[k + 3] = "1"
        THEN TemplateError(t, k + 4, ngroups)
        ELSE TRUE
      ELSE ngroups < 1 \/ TemplateError(t, k + 2, ngroups)
    ELSE TemplateError(t, k + 2, ngroups)

RECURSIVE ExpandTemplate(_, _, _)
ExpandTemplate(t, k, group1) ==
  IF k > Len(t) THEN <<>>
  ELSE IF t[k] # BS \/ k = Len(t)
  THEN <<t[k]>> \o ExpandTemplate(t, k + 1, group1)
  ELSE LET c == t[k + 1] IN
    IF c = "n" THEN <<NL>> \o ExpandTemplate(t, k + 2, group1)
    ELSE IF c = BS THEN <<BS>> \o ExpandTemplate(t, k + 2, group1)
    ELSE IF c = "T" THEN <<TAB, "est">> \o ExpandTemplate(t, k + 2, group1)
    ELSE IF c = "V" THEN <<VT, "ersion">> \o ExpandTemplate(t, k + 2, group1)
    ELSE IF c = "1" THEN
      IF k + 3 <= Len(t) /\ t[k + 2] = "1" /\ t[k + 3] = "1"
      THEN <<"I">> \o ExpandTemplate(t, k + 4, group1)
      ELSE group1 \o ExpandTemplate(t, k + 2, group1)
    ELSE <<BS, c>> \o ExpandTemplate(t, k + 2, group1)

(***************************************************************************)
(* scripts/sync_requirements.py                                            *)
(***************************************************************************)
Indent == 4

PYPROJECT == "pyproject.toml"
REQUIREMENTS == "requirements.txt"
REQUIREMENTS_DEV == "requirements-dev.txt"
INIT_PY == "src/lango/__init__.py"

\* The loop of parse_requirements over the lines of the file.
RECURSIVE ParseLines(_)
ParseLines(ls) ==
  IF ls = <<>> THEN <<>>
  ELSE LET line == strip(Head(ls)) IN
    IF line = <<>> \/ line[1] = "#" THEN ParseLines(Tail(ls))
    ELSE IF line[1] = "-" THEN ParseLines(Tail(ls))
    ELSE <<line>> \o ParseLines(Tail(ls))

parse_requirements(file) ==
  IF ~file.exists THEN <<>> ELSE ParseLines(splitlines(file.text))

FormatLine(dep, indent) == [i \in 1..indent |-> SP] \o <<QT>> \o dep \o <<QT, ",">>

format_dependencies(deps, indent) ==
  IF deps = <<>> THEN <<>>
  ELSE Join(<<NL>>, [i \in 1..Len(deps) |-> FormatLine(deps[i], indent)])

\* (label\s*=\s*\[) begun at i: the position of its "[", or 0.
HeaderEnd(s, i, label) ==
  IF i > Len(s) \/ s[i] # label THEN 0
  ELSE LET e == SkipWs(s, i + 1) IN
    IF e > Len(s) \/ s[e] # "=" THEN 0
    ELSE LET b == SkipWs(s, e + 1) IN
      IF b > Len(s) \/ s[b] # "[" THEN 0 ELSE b

\* (\n\s*\]) begun at c: the position of its "]", or 0.
ClosingEnd(s, c) ==
  IF c > Len(s) \/ s[c] # NL THEN 0
  ELSE LET k == SkipWs(s, c + 1) IN
    IF k <= Len(s) /\ s[k] = "]" THEN k ELSE 0

\* The lazy (.*?) under DOTALL begun at from: the end of the first closing
\* at or after it, or 0.
FirstClosing(s, from) ==
  LET C == {c \in from..Len(s) : ClosingEnd(s, c) # 0}
  IN IF C = {} THEN 0 ELSE ClosingEnd(s, Min(C))

\* The whole pattern (label\s*=\s*\[)\s*\n(.*?)(\n\s*\]) begun at i: the
\* position of the last token of the match, or 0.  The greedy \s* before \n
\* first takes the white space up to its last line break and gives back only
\* when no closing follows at all.
ArrayMatchEnd(s, i, label) ==
  LET b == HeaderEnd(s, i, label) IN
  IF b = 0 THEN 0
  ELSE LET r == SkipWs(s, b + 1)
           P == {p \in (b + 1)..(r - 1) : s[p] = NL /\ FirstClosing(s, p + 1) # 0}
       IN IF P = {} THEN 0 ELSE FirstClosing(s, Max(P) + 1)

\* re.sub(pattern, replacement, content, flags=re.DOTALL) from position pos
\* on: every match that does not overlap an earlier one is replaced.
RECURSIVE SubArrays(_, _, _, _)
SubArrays(s, pos, label, template) ==
  LET M == {i \in pos..Len(s) : ArrayMatchEnd(s, i, label) # 0} IN
  IF M = {} THEN SubSeq(s, pos, Len(s))
  ELSE LET i == Min(M)
           group1 == SubSeq(s, i, HeaderEnd(s, i, label))
       IN SubSeq(s, pos, i - 1) \o ExpandTemplate(template, 1, group1)
            \o SubArrays(s, ArrayMatchEnd(s, i, label) + 1, label, template)

\* f'\\1\n{deps_str}\n]'
ArrayTemplate(deps_str) == <<BS, "1", NL>> \o deps_str \o <<NL, "]">>

\* The two guarded substitutions of sync_to_pyproject, one label each.
UpdateArray(content, label, deps) ==
  IF deps # <<>>
  THEN SubArrays(content, 1, label, ArrayTemplate(format_dependencies(deps, Indent)))
  ELSE content

UpdateRaises(deps) ==
  deps # <<>> /\ TemplateError(ArrayTemplate(format_dependencies(deps, Indent)), 1, 3)

(***************************************************************************)
(* scripts/sync_version.py                                                 *)
(***************************************************************************)
None == <<>>

\* "([^"]+)" with its opening quote at q: the position of the closing
\* quote, or 0.
QuotedEnd(s, q) ==
  IF q > Len(s) \/ s[q] # QT THEN 0
  ELSE LET E == {e \in (q + 1)..Len(s) : s[e] = QT}
       IN IF E = {} \/ Min(E) = q + 1 THEN 0 ELSE Min(E)

AtLineStart(s, i) == i = 1 \/ s[i - 1] = NL

\* ^word\s*=\s*"[^"]+" begun at i under MULTILINE: the position of the
\* closing quote, or 0.
AssignEnd(s, i, word) ==
  IF i > Len(s) \/ s[i] # word \/ ~AtLineStart(s, i) THEN 0
  ELSE LET e == SkipWs(s, i + 1) IN
    IF e > Len(s) \/ s[e] # "=" THEN 0
    ELSE QuotedEnd(s, SkipWs(s, e + 1))

\* re.search(r'^version\s*=\s*"([^"]+)"', content, re.MULTILINE), group 1.
VersionOf(content) ==
  LET M == {i \in 1..Len(content) : AssignEnd(content, i, "V") # 0} IN
  IF M = {} THEN None
  ELSE LET e == AssignEnd(content, Min(M), "V")
           Q == {q \in Min(M)..(e - 1) : content[q] = QT}
       IN SubSeq(content, Max(Q) + 1, e - 1)

get_pyproject_version(file) == VersionOf(file.text)

\* .*$ after position e: the last position before the next line break.
LineEnd(s, e) ==
  Min({j \in e..Len(s) : j = Len(s) \/ s[j + 1] = NL})

\* f'__version__ = "{version}"  # modify in pyproject.toml'
VersionTemplate(version) ==
  <<"U", SP, "=", SP, QT>> \o version \o <<QT, SP, SP, "#", SP, "m">>

\* re.sub(r'^__version__\s*=\s*"[^"]+".*$', template, content, re.MULTILINE)
RECURSIVE SubVersion(_, _, _)
SubVersion(s, pos, template) ==
  LET M == {i \in pos..Len(s) : AssignEnd(s, i, "U") # 0} IN
  IF M = {} THEN SubSeq(s, pos, Len(s))
  ELSE LET i == Min(M) IN
    SubSeq(s, pos, i - 1) \o ExpandTemplate(template, 1, <<>>)
      \o SubVersion(s, LineEnd(s, AssignEnd(s, i, "U")) + 1, template)

(***************************************************************************)
(* The inputs: the files a run finds.                                      *)
(***************************************************************************)
\* The most lines that the input files of a run hold together.
MaxInput == 3
MaxRuns == 2

\* A text of the given lines, each ended by a line break.
TextOf(ls) == Flatten([i \in 1..Len(ls) |-> ls[i] \o <<NL>>])

Absent == [exists |-> FALSE, text |-> <<>>]

\* The files of n lines drawn from S; the file of no line is there or not.
FilesOf(S, n) ==
  {[exists |-> TRUE, text |-> TextOf(ls)] : ls \in [1..n -> S]}
    \cup (IF n = 0 THEN {Absent} ELSE {})

\* pyproject.toml as the requirements synchronizer may find it: arrays with
\* an entry or none, the closing bracket at the line start or indented, an
\* array on one line, another line.
ArrayBlocks ==
  { <<"D", SP, "=", SP, "[", NL, SP, QT, "x", QT, ",", NL, "]">>,
    <<"D", "=", "[", NL, "]">>,
    <<"T", "=", "[", NL, QT, "y", QT, ",", NL, SP, "]">>,
    <<"T", "=", "[", NL, "]">>,
    <<"D", "=", "[", QT, "x", QT, "]">>,
    <<"x">> }

\* Lines of requirements.txt: entries (one to trim), a blank line, a comment,
\* a flag, and entries that hold a backslash.
ReqLines ==
  { <<"x">>, <<SP, "y", SP>>, <<SP>>, <<"#", "x">>, <<"-", "x">>,
    <<"x", BS, "n", "]", "y">>, <<BS, "x">> }

DevLines == { <<"y">>, <<"#", "y">>, <<"y", BS, BS>> }

\* pyproject.toml as the version synchronizer may find it.
VersionLines ==
  { <<"V", SP, "=", SP, QT, "x", QT>>,
    <<"V", "=", QT, "x", BS, BS, "y", QT>>,
    <<"V", "=", QT, BS, "x", QT>>,
    <<SP, "V", "=", QT, "y", QT>>,
    <<"x">> }

InitLines ==
  { <<"U", SP, "=", SP, QT, "y", QT>>,
    <<"U", "=", QT, "y", QT, SP, "#", "x">>,
    VersionTemplate(<<"x">>),
    <<"x">> }

Utilities == {"requirements", "version"}

(***************************************************************************)
(* The state of a run.                                                     *)
(***************************************************************************)
VARIABLES
  util,              \* the script that runs
  fs,                \* the files: name -> [exists, text]
  fs0,               \* the files as the run found them
  run,               \* the number of the run, from 1
  pc,                \* the position of the run
  content,           \* sync_to_pyproject / sync_version: content
  original_content,  \* original_content / original
  deps,              \* sync_to_pyproject: deps
  dev_deps,          \* sync_to_pyproject: dev_deps
  version,           \* sync_version: version
  changed,           \* main: changed, the value the sync returned
  returned,          \* the sync returned a value
  exit_code,         \* the exit code of the process, -1 while it runs
  printed,           \* the lines printed, each <<stream, text>>
  reads,             \* read_text() calls of the run
  writes             \* write_text() calls of the run

vars ==
  <<util, fs, fs0, run, pc, content, original_content, deps, dev_deps, version,
    changed, returned, exit_code, printed, reads, writes>>

Locals0 ==
  /\ pc = "main"
  /\ content = <<>>
  /\ original_content = <<>>
  /\ deps = <<>>
  /\ dev_deps = <<>>
  /\ version = None
  /\ changed = FALSE
  /\ returned = FALSE
  /\ exit_code = -1
  /\ printed = <<>>
  /\ reads = 0
  /\ writes = 0

InitRequirements ==
  /\ util = "requirements"
  /\ \E i \in 0..MaxInput : \E j \in 0..(MaxInput - i) : \E k \in 0..(MaxInput - i - j) :
       \E py \in FilesOf(ArrayBlocks, i), req \in FilesOf(ReqLines, j),
          dev \in FilesOf(DevLines, k) :
         fs = [f \in {PYPROJECT, REQUIREMENTS, REQUIREMENTS_DEV} |->
                 IF f = PYPROJECT THEN py ELSE IF f = REQUIREMENTS THEN req ELSE dev]

InitVersion ==
  /\ util = "version"
  /\ \E i \in 0..MaxInput : \E j \in 0..(MaxInput - i) :
       \E py \in FilesOf(VersionLines, i), init \in FilesOf(InitLines, j) :
         fs = [f \in {PYPROJECT, INIT_PY} |-> IF f = PYPROJECT THEN py ELSE init]

Init ==
  /\ InitRequirements \/ InitVersion
  /\ fs0 = fs
  /\ run = 1
  /\ Locals0

Raise(text) ==
  /\ pc' = "exit"
  /\ exit_code' = 1
  /\ printed' = Append(printed, <<"stderr", text>>)

(***************************************************************************)
(* scripts/sync_requirements.py: main and the steps of sync_to_pyproject   *)
(***************************************************************************)
main_requirements ==
  /\ pc = "main" /\ util = "requirements"
  /\ IF ~fs[PYPROJECT].exists
     THEN /\ printed' = Append(printed, <<"stderr", "Error: pyproject.toml not found">>)
          /\ exit_code' = 1
          /\ pc' = "exit"
     ELSE /\ pc' = "read_pyproject"
          /\ UNCHANGED <<printed, exit_code>>
  /\ UNCHANGED <<util, fs, fs0, run, content, original_content, deps, dev_deps,
                 version, changed, returned, reads, writes>>

ReadPyproject ==
  /\ pc = "read_pyproject"
  /\ content' = fs[PYPROJECT].text
  /\ original_content' = fs[PYPROJECT].text
  /\ reads' = reads + 1
  /\ pc' = "parse"
  /\ UNCHANGED <<util, fs, fs0, run, deps, dev_deps, version, changed, returned,
                 exit_code, printed, writes>>

\* ReadsOf without the exists() guard of parse_requirements.
ReadsOfUnguarded(file) == 1

\* read_text() is called for a requirements file only when it exists.
ReadsOf(file) == IF file.exists THEN 1 ELSE 0

ParseRequirements ==
  /\ pc = "parse"
  /\ deps' = parse_requirements(fs[REQUIREMENTS])
  /\ dev_deps' = parse_requirements(fs[REQUIREMENTS_DEV])
  /\ reads' = reads + ReadsOf(fs[REQUIREMENTS]) + ReadsOf(fs[REQUIREMENTS_DEV])
  /\ pc' = "update"
  /\ UNCHANGED <<util, fs, fs0, run, content, original_content, version, changed,
                 returned, exit_code, printed, writes>>

UpdateDependencies ==
  /\ pc = "update"
  /\ IF UpdateRaises(deps) \/ UpdateRaises(dev_deps)
     THEN /\ Raise("re.error")
          /\ UNCHANGED content
     ELSE /\ content' = UpdateArray(UpdateArray(content, "D", deps), "T", dev_deps)
          /\ pc' = "write_pyproject"
          /\ UNCHANGED <<exit_code, printed>>
  /\ UNCHANGED <<util, fs, fs0, run, original_content, deps, dev_deps, version,
                 changed, returned, reads, writes>>

\* WriteBack without the comparison: the file is written in any case.
WriteBackAlways(name) ==
  /\ fs' = [fs EXCEPT ![name] = [exists |-> TRUE, text |-> content]]
  /\ writes' = writes + 1
  /\ changed' = TRUE
  /\ returned' = TRUE
  /\ pc' = "return"
  /\ UNCHANGED <<util, fs0, run, content, original_content, deps, dev_deps,
                 version, exit_code, printed, reads>>

\* The write-back of both scripts: write only a content that differs.
WriteBack(name) ==
  /\ IF content # original_content
     THEN /\ fs' = [fs EXCEPT ![name] = [exists |-> TRUE, text |-> content]]
          /\ writes' = writes + 1
          /\ changed' = TRUE
     ELSE /\ changed' = FALSE
          /\ UNCHANGED <<fs, writes>>
  /\ returned' = TRUE
  /\ pc' = "return"
  /\ UNCHANGED <<util, fs0, run, content, original_content, deps, dev_deps,
                 version, exit_code, printed, reads>>

WritePyproject ==
  /\ pc = "write_pyproject"
  /\ WriteBack(PYPROJECT)

ExitRequirements ==
  /\ pc = "return" /\ util = "requirements"
  /\ printed' = Append(printed,
       <<"stdout", IF changed THEN "Synced requirements to pyproject.toml"
                   ELSE "pyproject.toml already in sync">>)
  /\ exit_code' = 0
  /\ pc' = "exit"
  /\ UNCHANGED <<util, fs, fs0, run, content, original_content, deps, dev_deps,
                 version, changed, returned, reads, writes>>

(***************************************************************************)
(* scripts/sync_version.py: main and the steps of sync_version             *)
(***************************************************************************)
\* main_version without the check that __init__.py exists.
main_version_unchecked ==
  /\ pc = "main" /\ util = "version"
  /\ IF ~fs[PYPROJECT].exists
     THEN /\ printed' = Append(printed, <<"stderr", "Error: pyproject.toml not found">>)
          /\ exit_code' = 1
          /\ pc' = "exit"
     ELSE /\ pc' = "get_version"
          /\ UNCHANGED <<printed, exit_code>>
  /\ UNCHANGED <<util, fs, fs0, run, content, original_content, deps, dev_deps,
                 version, changed, returned, reads, writes>>

main_version ==
  /\ pc = "main" /\ util = "version"
  /\ IF ~fs[PYPROJECT].exists
     THEN /\ printed' = Append(printed, <<"stderr", "Error: pyproject.toml not found">>)
          /\ exit_code' = 1
          /\ pc' = "exit"
     ELSE IF ~fs[INIT_PY].exists
     THEN /\ printed' = Append(printed, <<"stderr", "Error: src/lango/__init__.py not found">>)
          /\ exit_code' = 1
          /\ pc' = "exit"
     ELSE /\ pc' = "get_version"
          /\ UNCHANGED <<printed, exit_code>>
  /\ UNCHANGED <<util, fs, fs0, run, content, original_content, deps, dev_deps,
                 version, changed, returned, reads, writes>>

\* sync_version, lines 18 to 21: without a version it prints to standard
\* error and returns False.
GetVersion ==
  /\ pc = "get_version"
  /\ version' = get_pyproject_version(fs[PYPROJECT])
  /\ reads' = reads + 1
  /\ IF get_pyproject_version(fs[PYPROJECT]) = None
     THEN /\ printed' = Append(printed,
               <<"stderr", "Error: Could not find version in pyproject.toml">>)
          /\ changed' = FALSE
          /\ returned' = TRUE
          /\ pc' = "return"
     ELSE /\ pc' = "read_init"
          /\ UNCHANGED <<printed, changed, returned>>
  /\ UNCHANGED <<util, fs, fs0, run, content, original_content, deps, dev_deps,
                 exit_code, writes>>

ReadInit ==
  /\ pc = "read_init"
  /\ content' = fs[INIT_PY].text
  /\ original_content' = fs[INIT_PY].text
  /\ reads' = reads + 1
  /\ pc' = "update_version"
  /\ UNCHANGED <<util, fs, fs0, run, deps, dev_deps, version, changed, returned,
                 exit_code, printed, writes>>

UpdateVersion ==
  /\ pc = "update_version"
  /\ IF TemplateError(VersionTemplate(version), 1, 0)
     THEN /\ Raise("re.error")
          /\ UNCHANGED content
     ELSE /\ content' = SubVersion(content, 1, VersionTemplate(version))
          /\ pc' = "write_init"
          /\ UNCHANGED <<exit_code, printed>>
  /\ UNCHANGED <<util, fs, fs0, run, original_content, deps, dev_deps, version,
                 changed, returned, reads, writes>>

WriteInit ==
  /\ pc = "write_init"
  /\ WriteBack(INIT_PY)

ExitVersion ==
  /\ pc = "return" /\ util = "version"
  /\ printed' = Append(printed,
       <<"stdout", IF changed THEN "Synced __version__ from pyproject.toml"
                   ELSE "__version__ already in sync">>)
  /\ exit_code' = 0
  /\ pc' = "exit"
  /\ UNCHANGED <<util, fs, fs0, run, content, original_content, deps, dev_deps,
                 version, changed, returned, reads, writes>>

\* The script is run again on the files the last run left.
RunAgain ==
  /\ pc = "exit" /\ run < MaxRuns
  /\ run' = run + 1
  /\ fs0' = fs
  /\ pc' = "main"
  /\ content' = <<>>
  /\ original_content' = <<>>
  /\ deps' = <<>>
  /\ dev_deps' = <<>>
  /\ version' = None
  /\ changed' = FALSE
  /\ returned' = FALSE
  /\ exit_code' = -1
  /\ printed' = <<>>
  /\ reads' = 0
  /\ writes' = 0
  /\ UNCHANGED <<util, fs>>

Next ==
  \/ main_requirements
  \/ ReadPyproject
  \/ ParseRequirements
  \/ UpdateDependencies
  \/ WritePyproject
  \/ ExitRequirements
  \/ main_version
  \/ GetVersion
  \/ ReadInit
  \/ UpdateVersion
  \/ WriteInit
  \/ ExitVersion
  \/ RunAgain

Spec == Init /\ [][Next]_vars

(***************************************************************************)
(* What the properties speak of: the arrays of a document as TOML reads    *)
(* them, from the label to the bracket that closes the array, and the      *)
(* lines of a text.                                                        *)
(***************************************************************************)
Labels == {"D", "T"}

\* The bracket that closes the array opened before position j, or 0; a
\* bracket inside a quoted string closes nothing.
RECURSIVE ArrayClose(_, _)
ArrayClose(s, j) ==
  IF j > Len(s) THEN 0
  ELSE IF s[j] = "]" THEN j
  ELSE IF s[j] = QT
  THEN LET E == {e \in (j + 1)..Len(s) : s[e] = QT}
       IN IF E = {} THEN 0 ELSE ArrayClose(s, Min(E) + 1)
  ELSE ArrayClose(s, j + 1)

\* Where an array of one of the labels starts at or after pos.
ArrayStarts(s, pos, labels) ==
  {i \in pos..Len(s) : \E l \in labels : HeaderEnd(s, i, l) # 0}

HeaderEndOf(s, i) == Max({HeaderEnd(s, i, l) : l \in Labels})

\* The text from pos on with the body of every array left out.
RECURSIVE OutsideArrays(_, _)
OutsideArrays(s, pos) ==
  LET A == ArrayStarts(s, pos, Labels) IN
  IF A = {} THEN SubSeq(s, pos, Len(s))
  ELSE LET b == HeaderEndOf(s, Min(A))
           c == ArrayClose(s, b + 1)
       IN IF c = 0 THEN SubSeq(s, pos, b)
          ELSE SubSeq(s, pos, b) \o OutsideArrays(s, c)

\* The arrays of a label from pos on, each from its label to its closing bracket.
RECURSIVE ArraysOf(_, _, _)
ArraysOf(s, pos, label) ==
  LET A == ArrayStarts(s, pos, {label}) IN
  IF A = {} THEN <<>>
  ELSE LET c == ArrayClose(s, HeaderEnd(s, Min(A), label) + 1)
       IN IF c = 0 THEN <<SubSeq(s, Min(A), Len(s))>>
          ELSE <<SubSeq(s, Min(A), c)>> \o ArraysOf(s, c + 1, label)

\* The pieces of a text between its line breaks: text.split("\n").
RECURSIVE Pieces(_)
Pieces(s) ==
  LET N == {i \in 1..Len(s) : s[i] = NL}
  IN IF N = {} THEN <<s>>
     ELSE <<SubSeq(s, 1, Min(N) - 1)>> \o Pieces(SubSeq(s, Min(N) + 1, Len(s)))

IsSuffix(a, b) ==
  Len(a) <= Len(b) /\ SubSeq(b, Len(b) - Len(a) + 1, Len(b)) = a

\* The run ended in an exception of re.sub.
Raised == \E i \in DOMAIN printed : printed[i] = <<"stderr", "re.error">>

\* The run is over and its sync returned to main.
Completed == pc = "exit" /\ returned

\* A line that parse_requirements is to drop.
Dropped(line) == strip(line) = <<>> \/ strip(line)[1] \in {"#", "-"}

\* A requirements file with no entry: absent, or blank lines, comments, flags.
NoEntries(file) ==
  ~file.exists \/ \A i \in DOMAIN splitlines(file.text) : Dropped(splitlines(file.text)[i])

(***************************************************************************)
(* The properties                                                          *)
(***************************************************************************)

\* C1: the requirements sync is idempotent: a run that follows another on
\* unchanged requirement files reports no change, writes nothing and leaves
\* pyproject.toml as the run before left it.
C1_Idempotent ==
  (util = "requirements" /\ run >= 2 /\ pc = "exit")
    => (~changed /\ writes = 0 /\ fs[PYPROJECT] = fs0[PYPROJECT])

\* A line of the form version = "..." at the start of a line of the text.
HasVersionLine(text) ==
  \E i \in DOMAIN Pieces(text) : AssignEnd(Pieces(text)[i], 1, "V") # 0

\* C2: when pyproject.toml holds no version = "..." line, the version sync
\* reports the failure, the process exits with code 1 and __init__.py is not
\* written.
C2_NoVersionExitsOne ==
  (util = "version" /\ pc = "exit" /\ fs0[PYPROJECT].exists /\ fs0[INIT_PY].exists
     /\ ~HasVersionLine(fs0[PYPROJECT].text))
    => /\ exit_code = 1
       /\ \E i \in DOMAIN printed : printed[i][1] = "stderr"
       /\ writes = 0
       /\ fs[INIT_PY] = fs0[INIT_PY]

\* The text after the first match of the label's pattern, when a second
\* match follows it: what a substitution of the first match alone keeps.
AfterFirstMatch(s, label) ==
  LET M == {i \in 1..Len(s) : ArrayMatchEnd(s, i, label) # 0}
  IN SubSeq(s, ArrayMatchEnd(s, Min(M), label) + 1, Len(s))

MatchesTwice(s, label) ==
  /\ \E i \in 1..Len(s) : ArrayMatchEnd(s, i, label) # 0
  /\ \E i \in 1..Len(AfterFirstMatch(s, label)) :
       ArrayMatchEnd(AfterFirstMatch(s, label), i, label) # 0

\* C3: only the first occurrence of a label's array pattern is rewritten:
\* where the pattern occurs twice or more, all that follows the first
\* occurrence stays as it was (stated for the runs that rewrite one label).
C3_OnlyFirstRewritten ==
  (util = "requirements" /\ Completed)
    => /\ (deps # <<>> /\ dev_deps = <<>> /\ MatchesTwice(original_content, "D"))
            => IsSuffix(AfterFirstMatch(original_content, "D"), fs[PYPROJECT].text)
       /\ (dev_deps # <<>> /\ deps = <<>> /\ MatchesTwice(original_content, "T"))
            => IsSuffix(AfterFirstMatch(original_content, "T"), fs[PYPROJECT].text)

\* C4: the requirements sync alters nothing outside the bodies of the
\* dependencies and test arrays: the text around the arrays is the same
\* before and after, and an array whose list is empty is the same too.
C4_OnlyArrayBodiesChange ==
  (util = "requirements" /\ Completed)
    => /\ OutsideArrays(fs[PYPROJECT].text, 1) = OutsideArrays(original_content, 1)
       /\ deps = <<>> =>
            ArraysOf(fs[PYPROJECT].text, 1, "D") = ArraysOf(original_content, 1, "D")
       /\ dev_deps = <<>> =>
            ArraysOf(fs[PYPROJECT].text, 1, "T") = ArraysOf(original_content, 1, "T")

\* C5: a requirements file that is absent or holds only blank lines, comments
\* and flags parses to the empty list, and its array of pyproject.toml is the
\* same after the sync as before, whatever the other file holds.
C5_NoEntriesKeepsArray ==
  (util = "requirements" /\ Completed)
    => /\ NoEntries(fs[REQUIREMENTS]) =>
            /\ deps = <<>>
            /\ ArraysOf(fs[PYPROJECT].text, 1, "D") = ArraysOf(fs0[PYPROJECT].text, 1, "D")
       /\ NoEntries(fs[REQUIREMENTS_DEV]) =>
            /\ dev_deps = <<>>
            /\ ArraysOf(fs[PYPROJECT].text, 1, "T") = ArraysOf(fs0[PYPROJECT].text, 1, "T")

\* The canonical line of version v, as written.
CanonicalLine(v) ==
  <<"U", SP, "=", SP, QT>> \o v \o <<QT, SP, SP, "#", SP, "m">>

\* A line that starts with __version__ = "<old>".
IsVersionLine(line) == AssignEnd(line, 1, "U") # 0

\* The text with each of its __version__ lines replaced by the canonical line.
Canonicalized(text, v) ==
  Join(<<NL>>, [i \in DOMAIN Pieces(text) |->
    IF IsVersionLine(Pieces(text)[i]) THEN CanonicalLine(v) ELSE Pieces(text)[i]])

\* C6: with version V in pyproject.toml, sync_version replaces each line of
\* __init__.py that starts with __version__ = "<old>" by exactly
\* __version__ = "V"  # modify in pyproject.toml, leaves every other line as
\* it was, and returns True whenever the text differs from the one read.
C6_CanonicalVersionLine ==
  (util = "version" /\ Completed /\ VersionOf(fs0[PYPROJECT].text) # None)
    => /\ fs[INIT_PY].text =
            Canonicalized(fs0[INIT_PY].text, VersionOf(fs0[PYPROJECT].text))
       /\ changed <=> fs[INIT_PY].text # fs0[INIT_PY].text

\* The file a script writes.
Target == IF util = "requirements" THEN PYPROJECT ELSE INIT_PY

\* C7: in both scripts the target file is written exactly when the computed
\* content differs from the content read, and the sync returns True exactly
\* when that write happened; with equal contents nothing is written and it
\* returns False.
C7_WriteIffDiffers ==
  /\ ~returned => (writes = 0 /\ fs = fs0 /\ ~changed)
  /\ returned =>
       /\ writes = 1 <=> content # original_content
       /\ changed <=> writes = 1
       /\ writes = 0 => fs = fs0
       /\ writes = 1 =>
            /\ fs[Target].text = content
            /\ fs[Target].text # fs0[Target].text
            /\ \A f \in DOMAIN fs : f # Target => fs[f] = fs0[f]

C7_Witness ==
  /\ pc = "exit" /\ returned /\ changed /\ writes = 1
  /\ fs[Target].text = content /\ content # fs0[Target].text

\* The entries a requirements file is to give: its lines, trimmed, without
\* the empty ones and those that begin with "#" or "-", in the order of the file.
IsEntry(line) == line # <<>> /\ line[1] \notin {"#", "-"}

EntriesOf(file) ==
  IF ~file.exists THEN <<>>
  ELSE SelectSeq([i \in DOMAIN Pieces(file.text) |-> strip(Pieces(file.text)[i])], IsEntry)

\* An array that lists the entries: after the line of its label one line per
\* entry, four spaces, the entry in quotes, a comma, then the closing bracket.
ListsEntries(array, entries) ==
  LET P == Pieces(array) IN
  /\ Len(P) = Len(entries) + 2
  /\ P[Len(P)] = <<"]">>
  /\ \A i \in 1..Len(entries) :
       P[i + 1] = <<SP, SP, SP, SP, QT>> \o entries[i] \o <<QT, ",">>

Rewritten(text, label, entries) ==
  \E k \in DOMAIN ArraysOf(text, 1, label) : ListsEntries(ArraysOf(text, 1, label)[k], entries)

Matches(text, label) == \E i \in 1..Len(text) : ArrayMatchEnd(text, i, label) # 0

\* C8 (parsing): parse_requirements returns the trimmed lines that are not
\* empty and begin with neither "#" nor "-", in the order of the file, with
\* their duplicates.
ParsedInOrder ==
  (util = "requirements"
     /\ (pc \in {"update", "write_pyproject", "return"} \/ Completed \/ (pc = "exit" /\ Raised)))
    => (deps = EntriesOf(fs[REQUIREMENTS]) /\ dev_deps = EntriesOf(fs[REQUIREMENTS_DEV]))

\* C8: parse_requirements returns the trimmed lines that are not empty and
\* begin with neither "#" nor "-", in the order of the file, with their
\* duplicates; and the rewritten array lists one quoted, comma-ended line,
\* indented by four spaces, per entry, in that order.
C8_EntriesInOrder ==
  (util = "requirements" /\ Completed)
    => /\ deps = EntriesOf(fs[REQUIREMENTS])
       /\ dev_deps = EntriesOf(fs[REQUIREMENTS_DEV])
       /\ (deps # <<>> /\ dev_deps = <<>> /\ Matches(original_content, "D"))
            => Rewritten(fs[PYPROJECT].text, "D", deps)
       /\ (dev_deps # <<>> /\ deps = <<>> /\ Matches(original_content, "T"))
            => Rewritten(fs[PYPROJECT].text, "T", dev_deps)

\* C9 as stated: a run of either script reads at most two files and writes at
\* most one.
C9_AtMostTwoReads == reads <= 2 /\ writes <= 1

\* The requirements files that exist.
RequirementFiles == {f \in {REQUIREMENTS, REQUIREMENTS_DEV} : fs[f].exists}

\* C9 as amended: a run of the version script reads at most two files, a run
\* of the requirements script at most three (pyproject.toml and each
\* requirements file that exists), and a run of either writes at most one.
C9_ReadsAndWritesBounded ==
  /\ writes <= 1
  /\ util = "version" => reads <= 2
  /\ util = "requirements" => (reads <= 1 + Cardinality(RequirementFiles) /\ reads <= 3)

C9_Witness ==
  util = "requirements" /\ pc = "exit" /\ reads = 3 /\ writes = 1

\* A file the script requires is absent.
MissingRequired ==
  ~fs0[PYPROJECT].exists \/ (util = "version" /\ ~fs0[INIT_PY].exists)

\* C10: with a required file absent the script exits with code 1 and writes
\* no file; every other run that runs to completion, and in which the
\* version is found, exits with code 0, changed or not.
C10_ExitCodes ==
  pc = "exit" =>
    /\ MissingRequired => (exit_code = 1 /\ writes = 0 /\ fs = fs0)
    /\ (~MissingRequired /\ returned /\ (util = "version" => version # None))
         => exit_code = 0

C10_Witness ==
  /\ pc = "exit" /\ util = "version" /\ fs0[PYPROJECT].exists /\ ~fs0[INIT_PY].exists
  /\ exit_code = 1 /\ writes = 0

====
